---- MODULE Spec2Model ----
(***************************************************************************)
(* OpenPNM LinearSolver (src/OpenPNM/Algorithms/__LinearSolver__.py):      *)
(* boundary-condition registry, coefficient matrix and load vector         *)
(* assembly, sparse solve, rate evaluation and the effective-property      *)
(* estimator, as a state machine over the fields of one LinearSolver       *)
(* instance.                                                               *)
(*                                                                         *)
(* Numbers.  Boundary values, conductances and cross-sections are          *)
(* integers.  A matrix entry is a pair <<a, b>> standing for the real      *)
(* number a + b * g_super, where g_super is the coupling conductance 1e-60 *)
(* of line 177; sums of entries are exact.  NaN stands for numpy's nan     *)
(* (an entry of a property array that was never written).                  *)
(***************************************************************************)
EXTENDS Integers, Sequences, FiniteSets, TLC

VARIABLES
    net,            \* self._net: the network (topology, labels, geometry)
    fluid_g,        \* the fluid's throat conductance handed to run()
    pore_info,      \* self._pore_info: label -> Option(set of pores)
    BCval,          \* self._pore_data['BCval']: Option(array)
    BCtypes,        \* self._BCtypes: Option(array)
    BCvalues,       \* self._BCvalues: Option(array)
    conductance,    \* self._conductance: sequence, one entry per throat or size 1
    extera,         \* self._extera_Neumann_equations
    Coeff_dimension,\* self._Coeff_dimension: Option(int)
    A,              \* the matrix returned by the last _build_coefficient_matrix
    B,              \* the vector returned by the last _build_RHS_matrix
    result,         \* self._result: Option(array)
    Neumann_super_X,\* self._Neumann_super_X: Option(array)
    dir,            \* self._dir: Option(set of pores), snapshot of 'Dirichlet'
    BCval_temp,     \* self._BCval_temp: Option(array)
    BCtypes_temp,   \* self._BCtypes_temp: Option(array)
    BCvalues_temp,  \* self._BCvalues_temp: Option(array)
    ret             \* outcome of the last call: [op, status, at, value, arg, out]

vars == <<net, fluid_g, pore_info, BCval, BCtypes, BCvalues, conductance,
          extera, Coeff_dimension, A, B, result, Neumann_super_X,
          dir, BCval_temp, BCtypes_temp, BCvalues_temp, ret>>

(* ---------------------------- bounds ----------------------------------- *)
\* boundary values range over 0..MaxVal
MaxVal == 2
\* conductances range over 1..MaxG
MaxG == 1

(* --------------------------- small helpers ------------------------------ *)
None == <<>>
Some(x) == <<x>>
Has(o) == o # <<>>
Get(o) == o[1]

NaN == -1
IsNaN(v) == v = NaN
\* numpy ==: false as soon as one side is nan
ValEq(a, b) == ~IsNaN(a) /\ ~IsNaN(b) /\ a = b

Min(S) == CHOOSE x \in S : \A y \in S : x <= y

RECURSIVE SortedSeq(_)
SortedSeq(S) == IF S = {} THEN <<>> ELSE <<Min(S)>> \o SortedSeq(S \ {Min(S)})

RECURSIVE SumOver(_, _)
\* sum of f[x] over the finite set S
SumOver(S, f) ==
    IF S = {} THEN 0
    ELSE LET x == CHOOSE y \in S : TRUE IN f[x] + SumOver(S \ {x}, f)

\* matrix entries a + b*g_super
Zero2 == <<0, 0>>
Plus2(x, y) == <<x[1] + y[1], x[2] + y[2]>>
Neg2(x) == <<0 - x[1], 0 - x[2]>>
Cond2(g) == <<g, 0>>
\* self._g_super = 1e-60: one unit of the second component
g_super == <<0, 1>>

RECURSIVE SumData(_, _)
\* sum of the data of the triplets of coo picked by the set of positions I
SumData(coo, I) ==
    IF I = {} THEN Zero2
    ELSE LET i == CHOOSE j \in I : TRUE
         IN Plus2(coo[i][3], SumData(coo, I \ {i}))

(* ------------------------------ network -------------------------------- *)
Pores == 0 .. (net.Np - 1)
Nt == Len(net.conns)
Throats == 1 .. Nt
\* connections[:,0] and connections[:,1] of throat t
tpore1(t) == net.conns[t][1]
tpore2(t) == net.conns[t][2]

\* self._net.find_neighbor_pores(f, mode='not_intersection', excl_self=True)
FindNeighborPores(f) ==
    {q \in Pores \ f : \E t \in Throats :
        \/ tpore1(t) \in f /\ tpore2(t) = q
        \/ tpore2(t) \in f /\ tpore1(t) = q}

\* self._net.find_connecting_throat(f, fn)
FindConnectingThroat(f, fn) ==
    {t \in Throats : \/ tpore1(t) \in f /\ tpore2(t) \in fn
                     \/ tpore2(t) \in f /\ tpore1(t) \in fn}

\* self._net.find_neighbor_throats(pores, flatten=True, mode='not_intersection')
FindNeighborThroats(S) ==
    {t \in Throats : (tpore1(t) \in S) # (tpore2(t) \in S)}

(* ---------------------- boundary condition registry --------------------- *)
BCLabels == {"Dirichlet", "Neumann_flux", "Neumann_insulated",
             "Neumann_rate_union", "Neumann_rate_individual"}
OtherLabels == BCLabels \ {"Dirichlet"}

KindOf(l) == CASE l = "Dirichlet" -> 1
               [] l = "Neumann_flux" -> 2
               [] l = "Neumann_insulated" -> 3
               [] l = "Neumann_rate_union" -> 4
               [] l = "Neumann_rate_individual" -> 5

\* get_pore_data(locations=bcpores, prop='BCval')[p]
BCvalAt(bv, p) == IF Has(bv) THEN Get(bv)[p] ELSE NaN

\* labels of p among the keys of info
LabelsOf(info, p) == {l \in BCLabels : Has(info[l]) /\ p \in Get(info[l])}

\* labels that share a pore with 'Dirichlet': for them the iteration order of
\* the keys of self._pore_info decides which assignment is the last one
Conflicting(info) ==
    {l \in OtherLabels : Has(info[l]) /\ Has(info["Dirichlet"])
                         /\ Get(info[l]) \cap Get(info["Dirichlet"]) # {}}

\* The kind a pore gets from the loop over self._pore_info.keys(); `after` is
\* the set of labels iterated after 'Dirichlet'.
KindFromLabels(ls, after) ==
    IF ls = {} THEN 0
    ELSE IF "Dirichlet" \in ls /\ (ls \cap after = {}) THEN 1
    ELSE LET o == ls \ {"Dirichlet"}
         IN IF o = {} THEN 1 ELSE KindOf(CHOOSE l \in o : TRUE)

\* _boundary_conditions_setup: both arrays rebuilt from zero
SetupTypes(info, after) ==
    [p \in Pores |-> KindFromLabels(LabelsOf(info, p), after)]

SetupValues(info, bv) ==
    [p \in Pores |-> IF LabelsOf(info, p) = {} THEN 0 ELSE BCvalAt(bv, p)]

(* ----------------------- _build_coefficient_matrix ---------------------- *)
\* variant: every unclassified pore becomes insulated, internal or not
DefaultInsulatedEverywhere(types) ==
    [p \in Pores |-> IF types[p] = 0 THEN 3 ELSE types[p]]

\* lines 132-134: unclassified pores that are not 'internal' become insulated
DefaultInsulated(types) ==
    [p \in Pores |-> IF p \notin net.internal /\ types[p] = 0 THEN 3 ELSE types[p]]

\* lines 146-147: a conductance of size 1 is broadcast to every throat
Broadcast(c) == IF Len(c) = 1 THEN [t \in Throats |-> c[1]] ELSE c

\* lines 141-149: rows tpore1, columns tpore2, for throats whose tpore1 is not Dirichlet
\* variant: the Dirichlet filter of line 141 dropped
Loc1Unfiltered(types) == Throats

Loc1(types) == {t \in Throats : types[tpore1(t)] # 1}

TripletsOf1(ts, c) ==
    [i \in 1 .. Len(ts) |-> <<tpore1(ts[i]), tpore2(ts[i]), Cond2(c[ts[i]])>>]

Triplets1(types, c) == TripletsOf1(SortedSeq(Loc1(types)), c)

\* variant: the second mask taken from tpore1 like the first one
Loc2FromFirstEndpoint(types) == {t \in Throats : types[tpore1(t)] # 1}

\* lines 151-156: rows tpore2, columns tpore1, for throats whose tpore2 is not Dirichlet
Loc2(types) == {t \in Throats : types[tpore2(t)] # 1}

TripletsOf2(ts, c) ==
    [i \in 1 .. Len(ts) |-> <<tpore2(ts[i]), tpore1(ts[i]), Cond2(c[ts[i]])>>]

Triplets2(types, c) == TripletsOf2(SortedSeq(Loc2(types)), c)

\* sp.unique of values[p], p in P: sorted, and nan != nan keeps every nan
Unique(P, values) ==
    SortedSeq({values[p] : p \in {q \in P : ~IsNaN(values[q])}})
    \o [i \in 1 .. Cardinality({q \in P : IsNaN(values[q])}) |-> NaN]

\* line 170: sp.sum(self._BCvalues[f] * cross_section[ft]) with numpy's
\* broadcasting of an array of len(f) against one of len(ft); every
\* self._BCvalues[f] equals v.  The product raises when the shapes differ and
\* neither has length 1.
FluxShapesOk(f, ft) ==
    \/ Cardinality(f) = Cardinality(ft)
    \/ Cardinality(f) = 1
    \/ Cardinality(ft) = 1

FluxSum(v, f, ft) ==
    IF Cardinality(ft) = 1 /\ Cardinality(f) # 1
    THEN Cardinality(f) * v * SumOver(ft, net.cross_section)
    ELSE v * SumOver(ft, net.cross_section)

\* lines 165-168: the group of flux value fv and its connecting throats
FluxGroup(flux_pores, values, fv) == {p \in flux_pores : ValEq(values[p], fv)}

FluxThroats(f) == FindConnectingThroat(f, FindNeighborPores(f) \cap net.internal)

\* lines 169-170 for the group f and its throats ft, over bc = [types, values, err]
FluxConvert(bc, fv, f, ft) ==
    IF ~FluxShapesOk(f, ft)
    THEN [bc EXCEPT !.types = [p \in Pores |-> IF p \in f THEN 4 ELSE bc.types[p]],
                    !.err = "ValueError"]
    ELSE [types |-> [p \in Pores |-> IF p \in f THEN 4 ELSE bc.types[p]],
          values |-> [p \in Pores |-> IF p \in f THEN FluxSum(fv, f, ft)
                                      ELSE bc.values[p]],
          err |-> bc.err]

FluxStepOn(bc, fv, f) == FluxConvert(bc, fv, f, FluxThroats(f))

\* one pass of the loop of lines 164-170
FluxStep(bc, flux_pores, fv) == FluxStepOn(bc, fv, FluxGroup(flux_pores, bc.values, fv))

RECURSIVE FluxLoop(_, _, _, _)
FluxLoop(bc, flux_pores, flux_values, i) ==
    IF i > Len(flux_values) \/ bc.err # "" THEN bc
    ELSE FluxLoop(FluxStep(bc, flux_pores, flux_values[i]), flux_pores, flux_values, i + 1)

\* lines 161-170: Neumann flux converted to grouped rate
FluxPores(types) == {p \in Pores : types[p] = 2}

FluxToRateOf(types, values, flux_pores) ==
    FluxLoop([types |-> types, values |-> values, err |-> ""],
             flux_pores, Unique(flux_pores, values), 1)

FluxToRate(types, values) == FluxToRateOf(types, values, FluxPores(types))

\* variant: every grouped-rate pore coupled to every superpore
NeuMembersAnyValue(types, values, v) == {p \in Pores : types[p] = 4}

\* lines 180-181: the pores coupled to the superpore of extera_neu[item]
NeuMembers(types, values, v) == {p \in Pores : types[p] = 4 /\ ValEq(values[p], v)}

\* lines 182-187, for item (0-based): the superpore's row index and its couplings
SuperRow(dim, item) == dim - item - 1

SuperTripletsOf(ms, dim, item) ==
    [i \in 1 .. Len(ms) |-> <<ms[i], SuperRow(dim, item), g_super>>]
    \o [i \in 1 .. Len(ms) |-> <<SuperRow(dim, item), ms[i], g_super>>]

SuperTriplets(types, values, extera_neu, dim, item) ==
    SuperTripletsOf(SortedSeq(NeuMembers(types, values, extera_neu[item + 1])), dim, item)

RECURSIVE SuperLoop(_, _, _, _, _)
SuperLoop(types, values, extera_neu, dim, item) ==
    IF item >= Len(extera_neu) THEN <<>>
    ELSE SuperTriplets(types, values, extera_neu, dim, item)
         \o SuperLoop(types, values, extera_neu, dim, item + 1)

\* variant: one auxiliary equation per grouped-rate pore, values not made unique
ExteraNeumannPerPore(types, values) ==
    [i \in 1 .. Cardinality({p \in Pores : types[p] = 4}) |->
        values[SortedSeq({p \in Pores : types[p] = 4})[i]]]

\* lines 173-190: one auxiliary equation per distinct grouped-rate value
ExteraNeumann(types, values) ==
    IF \E p \in Pores : types[p] = 4
    THEN Unique({p \in Pores : types[p] = 4}, values)
    ELSE <<>>

\* lines 195-198: the diagonal of the Dirichlet rows
DiagOnes(ds) == [i \in 1 .. Len(ds) |-> <<ds[i], ds[i], <<1, 0>>>>]

DirichletDiag(types) == DiagOnes(SortedSeq({p \in Pores : types[p] = 1}))

\* variant: the row sums taken over the pore columns only
STempPoreColumns(coo, types, r) ==
    IF r \in Pores /\ types[r] = 1 THEN Zero2
    ELSE Neg2(SumData(coo, {i \in 1 .. Len(coo) : coo[i][1] = r /\ coo[i][2] \in Pores}))

\* lines 200-204: S_temp[r], minus the sum of the data of row r, Dirichlet rows zeroed
STemp(coo, types, r) ==
    IF r \in Pores /\ types[r] = 1 THEN Zero2
    ELSE Neg2(SumData(coo, {i \in 1 .. Len(coo) : coo[i][1] = r}))

\* lines 205-208: the diagonal of every row that is not Dirichlet
NonDir(types, dim) == {r \in 0 .. (dim - 1) : ~(r \in Pores /\ types[r] = 1)}

ClosureOf(coo, types, non_Dir) ==
    [i \in 1 .. Len(non_Dir) |-> <<non_Dir[i], non_Dir[i], STemp(coo, types, non_Dir[i])>>]

ClosureDiag(coo, types, dim) == ClosureOf(coo, types, SortedSeq(NonDir(types, dim)))

\* lines 210-211: coo_matrix(...).tocsr() adds up the triplets of one position
ToMatrix(coo, dim) ==
    [r \in 0 .. (dim - 1) |-> [c \in 0 .. (dim - 1) |->
        SumData(coo, {i \in 1 .. Len(coo) : coo[i][1] = r /\ coo[i][2] = c})]]

\* lines 194-211: the diagonal entries appended to the triplets coo1
WithDiagonal(coo1, types, dim) == ToMatrix(coo1 \o ClosureDiag(coo1, types, dim), dim)

\* lines 173-211, on the arrays bc left by the flux conversion
AssembleOf(offdiag, bc, c, extera_neu, dim) ==
    [err |-> "", types |-> bc.types, values |-> bc.values,
     conductance |-> c, extera |-> extera_neu, dim |-> dim,
     A |-> WithDiagonal(offdiag \o SuperLoop(bc.types, bc.values, extera_neu, dim, 0)
                                \o DirichletDiag(bc.types),
                        bc.types, dim)]

AssembleFrom(offdiag, bc, c, extera_neu) ==
    AssembleOf(offdiag, bc, c, extera_neu, net.Np + Len(extera_neu))

BuildAfterFlux(offdiag, bc, c) ==
    IF bc.err # ""
    THEN [err |-> bc.err, types |-> bc.types, values |-> bc.values,
          conductance |-> c, extera |-> <<>>, dim |-> 0, A |-> <<>>]
    ELSE AssembleFrom(offdiag, bc, c, ExteraNeumann(bc.types, bc.values))

\* lines 149 and 156: data_main[loc1] and data_main[loc2] pick the entries at
\* the True positions of a mask that has one entry per throat; a position
\* beyond the end of data_main raises, a mask shorter than data_main does not
MaskInBounds(ts, c) == \A t \in ts : t <= Len(c)

BuildFrom(t1, values0, c) ==
    IF ~MaskInBounds(Loc1(t1) \cup Loc2(t1), c)
    THEN [err |-> "IndexError", types |-> t1, values |-> values0,
          conductance |-> c, extera |-> <<>>, dim |-> 0, A |-> <<>>]
    ELSE BuildAfterFlux(Triplets1(t1, c) \o Triplets2(t1, c), FluxToRate(t1, values0), c)

\* _build_coefficient_matrix on (self._BCtypes, self._BCvalues, self._conductance)
BuildCoefficientMatrix(types0, values0, c0) ==
    BuildFrom(DefaultInsulated(types0), values0, Broadcast(c0))

(* --------------------------- _build_RHS_matrix -------------------------- *)
\* variant: the superpore rows filled in ascending order
BuildRHSMatrixAscending(types, values, extera_neu, dim) ==
    [r \in 0 .. (dim - 1) |->
        IF (\E p \in Pores : types[p] = 4) /\ r >= net.Np
        THEN extera_neu[r - net.Np + 1]
        ELSE IF r \in Pores /\ types[r] = 5 THEN values[r]
        ELSE IF r \in Pores /\ types[r] = 1 THEN values[r]
        ELSE 0]

BuildRHSMatrix(types, values, extera_neu, dim) ==
    [r \in 0 .. (dim - 1) |->
        IF (\E p \in Pores : types[p] = 4)
           /\ \E item \in 0 .. (Len(extera_neu) - 1) : r = SuperRow(dim, item)
        THEN extera_neu[(dim - r - 1) + 1]
        ELSE IF r \in Pores /\ types[r] = 5 THEN values[r]
        ELSE IF r \in Pores /\ types[r] = 1 THEN values[r]
        ELSE 0]

(* ------------------------------- spsolve -------------------------------- *)
(* The solution of A X = B is computed exactly by Cramer's rule.  A          *)
(* determinant is a polynomial in g_super, kept as its coefficients          *)
(* p[0..D]; an entry of X is kept as its leading term <<n, d, o>>, the       *)
(* number (n/d) * g_super^o in lowest terms, which is what a float holds of  *)
(* it when g_super = 1e-60.  <<0, 0, 0>> is nan.                             *)
Abs(n) == IF n < 0 THEN 0 - n ELSE n

RECURSIVE GCD(_, _)
GCD(a, b) == IF b = 0 THEN a ELSE GCD(b, a % b)

XNaN == <<0, 0, 0>>
XZero == <<0, 1, 0>>
XIsNaN(x) == x[2] = 0
\* (n/d) * g_super^o in lowest terms, d > 0
XNorm(n, d, o) ==
    IF n = 0 THEN XZero
    ELSE LET g == GCD(Abs(n), Abs(d))
             sg == IF d < 0 THEN 0 - 1 ELSE 1
         IN <<sg * (n \div g), sg * (d \div g), o>>
XInt(v) == IF IsNaN(v) THEN XNaN ELSE XNorm(v, 1, 0)
XNeg(x) == IF XIsNaN(x) THEN XNaN ELSE XNorm(0 - x[1], x[2], x[3])
\* the sum keeps the term of lower order, as a float sum does
XAdd(x, y) ==
    IF XIsNaN(x) \/ XIsNaN(y) THEN XNaN
    ELSE IF x[1] = 0 THEN y
    ELSE IF y[1] = 0 THEN x
    ELSE IF x[3] < y[3] THEN x
    ELSE IF y[3] < x[3] THEN y
    ELSE XNorm(x[1] * y[2] + y[1] * x[2], x[2] * y[2], x[3])
XSub(x, y) == XAdd(x, XNeg(y))
XScale(g, x) == IF XIsNaN(x) THEN XNaN ELSE XNorm(g * x[1], x[2], x[3])

PZero(D) == [k \in 0 .. D |-> 0]
POne(D) == [k \in 0 .. D |-> IF k = 0 THEN 1 ELSE 0]
PAdd(p, q) == [k \in DOMAIN p |-> p[k] + q[k]]
PScale(s, p) == [k \in DOMAIN p |-> s * p[k]]
\* (e[1] + e[2]*g_super) * p
PMulEntry(e, p) ==
    [k \in DOMAIN p |-> e[1] * p[k] + (IF k > 0 THEN e[2] * p[k - 1] ELSE 0)]
PIsZero(p) == \A k \in DOMAIN p : p[k] = 0
\* the lowest power of g_super with a non-zero coefficient
Lead(p) == Min({k \in DOMAIN p : p[k] # 0})

RECURSIVE DetRec(_, _, _, _)
RECURSIVE DetTerms(_, _, _, _, _)
\* Laplace expansion along the first of `rows`, over the columns `cols`
DetRec(M, rows, cols, D) ==
    IF rows = <<>> THEN POne(D)
    ELSE DetTerms(M, rows, SortedSeq(cols), 1, D)

DetTerms(M, rows, cs, k, D) ==
    IF k > Len(cs) THEN PZero(D)
    ELSE LET e == M[Head(rows)][cs[k]]
             rest == DetTerms(M, rows, cs, k + 1, D)
         IN IF e = Zero2 THEN rest
            ELSE LET minor == DetRec(M, Tail(rows), {cs[j] : j \in 1 .. Len(cs)} \ {cs[k]}, D)
                     term == PMulEntry(e, minor)
                 IN PAdd(IF k % 2 = 1 THEN term ELSE PScale(0 - 1, term), rest)

Det(M, dim) == DetRec(M, SortedSeq(0 .. (dim - 1)), 0 .. (dim - 1), dim)

\* the cofactor of position (j, i)
Cofactor(M, dim, j, i) ==
    LET d == DetRec(M, SortedSeq((0 .. (dim - 1)) \ {j}), (0 .. (dim - 1)) \ {i}, dim)
    IN IF (i + j) % 2 = 0 THEN d ELSE PScale(0 - 1, d)

RECURSIVE CramerNum(_, _, _, _, _)
\* sum over the rows j in J of b[j] * Cofactor(j, i)
CramerNum(M, b, dim, i, J) ==
    IF J = {} THEN PZero(dim)
    ELSE LET j == CHOOSE x \in J : TRUE
         IN PAdd(PScale(b[j], Cofactor(M, dim, j, i)), CramerNum(M, b, dim, i, J \ {j}))

\* the leading term of num / det
LeadRatioAt(num, det, ln, ld) == XNorm(num[ln], det[ld], ln - ld)

LeadRatio(num, det) ==
    IF PIsZero(num) THEN XZero ELSE LeadRatioAt(num, det, Lead(num), Lead(det))

\* entry i of the solution of M X = b, det being Det(M, dim), not zero
SolveEntry(M, b, dim, det, i) ==
    IF \E j \in 0 .. (dim - 1) : IsNaN(b[j]) /\ ~PIsZero(Cofactor(M, dim, j, i))
    THEN XNaN
    ELSE LeadRatio(CramerNum(M, b, dim, i, {j \in 0 .. (dim - 1) : ~IsNaN(b[j]) /\ b[j] # 0}),
                   det)

SolveWithDet(M, b, dim, det) ==
    IF PIsZero(det) THEN [i \in 0 .. (dim - 1) |-> XNaN]
    ELSE [i \in 0 .. (dim - 1) |-> SolveEntry(M, b, dim, det, i)]

\* sprslin.spsolve(A, B): an exactly singular matrix gives a warning and an
\* array of nan, not an exception
SpSolve(M, b, dim) == SolveWithDet(M, b, dim, Det(M, dim))

(* ------------------------- the solver's methods ------------------------- *)
\* The fields of the instance as one record, so that a method can be applied
\* to the outcome of another one inside one call.
Self ==
    [info |-> pore_info, BCval |-> BCval, types |-> BCtypes, values |-> BCvalues,
     cond |-> conductance, extera |-> extera, dim |-> Coeff_dimension,
     A |-> A, B |-> B, result |-> result, superX |-> Neumann_super_X,
     dir |-> dir, BCval_temp |-> BCval_temp, BCtypes_temp |-> BCtypes_temp,
     BCvalues_temp |-> BCvalues_temp, err |-> "", at |-> "",
     keys |-> {}, tensor |-> [k \in 1 .. 3 |-> 0]]

\* _boundary_conditions_setup (lines 104-128)
BoundaryConditionsSetupOn(s, after) ==
    [s EXCEPT !.types = Some(SetupTypes(s.info, after)),
              !.values = Some(SetupValues(s.info, s.BCval))]

\* line 38: (self._BCtypes == 0).all()
NoBoundaryCondition(types) == \A p \in Pores : types[p] = 0

\* lines 43-49, once the guard of line 38 has let the call through
\* lines 47-49: the solution X split into pore values and superpore values
Solved(s, bm, rhs, X) ==
    [s EXCEPT !.types = Some(bm.types), !.values = Some(bm.values),
              !.cond = bm.conductance, !.extera = bm.extera,
              !.dim = Some(bm.dim), !.A = Some(bm.A), !.B = Some(rhs),
              !.superX = Some([k \in 1 .. (bm.dim - net.Np) |-> X[net.Np + k - 1]]),
              !.result = Some([p \in Pores |-> X[p]])]

SolveWith(s, bm, rhs) == Solved(s, bm, rhs, SpSolve(bm.A, rhs, bm.dim))

\* lines 45-49, bm being what _build_coefficient_matrix left
AfterBuild(s, bm) ==
    IF bm.err # ""
    THEN [s EXCEPT !.types = Some(bm.types), !.values = Some(bm.values),
                   !.cond = bm.conductance, !.err = bm.err]
    ELSE SolveWith(s, bm, BuildRHSMatrix(bm.types, bm.values, bm.extera, bm.dim))

AssembleAndSolve(s) ==
    AfterBuild(s, BuildCoefficientMatrix(Get(s.types), Get(s.values), s.cond))

\* variant: the guard of line 38 dropped
DoOneInnerIterationUnguarded(s) == AssembleAndSolve(s)

\* _do_one_inner_iteration (lines 36-50)
DoOneInnerIterationOn(s) ==
    IF NoBoundaryCondition(Get(s.types)) THEN [s EXCEPT !.err = "Exception"]
    ELSE AssembleAndSolve(s)

\* variant: the first stored endpoint always taken as the source
RateSourceFirst(S, t) == tpore1(t)

\* rate(pores=S), lines 236-248: the endpoint inside S is the source
RateSource(S, t) == IF tpore1(t) \in S THEN tpore1(t) ELSE tpore2(t)
RateSink(S, t) == IF tpore1(t) \in S THEN tpore2(t) ELSE tpore1(t)

\* variant: the conductance left out of the product of line 247
RateTermUnweighted(X, g, S, t) == XSub(X[RateSource(S, t)], X[RateSink(S, t)])

RateTerm(X, g, S, t) == XScale(g[t], XSub(X[RateSource(S, t)], X[RateSink(S, t)]))

RECURSIVE RateSum(_, _, _, _, _)
RateSum(X, g, S, ts, i) ==
    IF i > Len(ts) THEN XZero
    ELSE XAdd(RateTerm(X, g, S, ts[i]), RateSum(X, g, S, ts, i + 1))

RateOf(X, g, S) == RateSum(X, g, S, SortedSeq(FindNeighborThroats(S)), 1)

\* rate needs self._result and one conductance per throat it reads
RateDefined(S) ==
    /\ Has(result)
    /\ \A t \in FindNeighborThroats(S) : t <= Len(conductance)

(* ------------------------- _calc_eff_prop_cubic ------------------------- *)
\* BC1_values = 0.8 and BC2_values = 0.4 (lines 309, 314), in tenths
BC1_values == 8
BC2_values == 4

\* lines 287-298: the snapshot of the prior boundary conditions
SnapshotDirichlet(s) ==
    IF Has(s.info["Dirichlet"])
    THEN [s EXCEPT !.dir = s.info["Dirichlet"], !.info["Dirichlet"] = None]
    ELSE s

SnapshotArrays(s) ==
    IF Has(s.types)
    THEN [s EXCEPT !.BCtypes_temp = s.types, !.types = None,
                   !.BCvalues_temp = s.values, !.values = None]
    ELSE s

SnapshotBCval(s) ==
    IF Has(s.BCval)
    THEN SnapshotArrays([s EXCEPT !.BCval_temp = s.BCval, !.BCval = None])
    ELSE s

Snapshot(s) == SnapshotBCval(SnapshotDirichlet(s))

\* set_pore_data(prop='BCval', data=v, locations=P): a new array starts as nan
SetPoreData(bv, v, P) ==
    Some([p \in Pores |-> IF p \in P THEN v ELSE BCvalAt(bv, p)])

\* lines 303-315: the Dirichlet pair of one face pair
AssignFaces(s, f1, f2) ==
    [s EXCEPT !.info["Dirichlet"] = Some(f1 \cup f2),
              !.BCval = SetPoreData(SetPoreData(s.BCval, BC1_values, f1), BC2_values, f2)]

\* an exception raised inside self.run
RaisedInRun(s) == IF s.err # "" THEN [s EXCEPT !.at = "run"] ELSE s

\* self.run(...): the conductance taken from the fluid, the registry rebuilt,
\* then one inner iteration
Run(s, after) ==
    RaisedInRun(DoOneInnerIterationOn(
        BoundaryConditionsSetupOn([s EXCEPT !.cond = fluid_g], after)))

\* numpy broadcasting of two one-dimensional arrays of lengths a and b
BroadcastOk(a, b) == a = b \/ a = 1 \/ b = 1
BroadcastLen(a, b) == IF a = 1 THEN b ELSE a

\* lines 334-350: some coordinate is constant over the pores of face1
HasConstantCoord(f) ==
    \E k \in 1 .. 3 : Cardinality({net.coords[p][k] : p \in f}) = 1

\* lines 320-367: the exception, if any, raised between self.run and the
\* cleanup of lines 368-371
GeometryError(f1, f2, fn, ft) ==
    IF ~HasConstantCoord(f1) THEN "UnboundLocalError"
    ELSE IF f2 = {} THEN "IndexError"
    ELSE IF ~BroadcastOk(Cardinality(f1), Cardinality(fn)) THEN "ValueError"
    ELSE IF ~BroadcastOk(Cardinality(ft), BroadcastLen(Cardinality(f1), Cardinality(fn)))
         THEN "ValueError"
    ELSE ""

GeometryErrorOf(f1, f2, fn) == GeometryError(f1, f2, fn, FindConnectingThroat(f1, fn))

\* lines 373-375: the diagonal position chosen from the name of face1
TensorSlot(name) ==
    IF name \in {"top", "bottom"} THEN 3
    ELSE IF name \in {"right", "left"} THEN 2
    ELSE IF name \in {"front", "back"} THEN 1
    ELSE 0

\* lines 368-375: the synthetic conditions removed, the pair's result recorded
FinishPair(s, pair, i) ==
    [s EXCEPT !.info["Dirichlet"] = None, !.BCval = None,
              !.types = None, !.values = None,
              !.keys = @ \cup {pair},
              !.tensor = [k \in 1 .. 3 |-> IF k = TensorSlot(pair[1]) THEN i ELSE @[k]]]

AfterRunChecked(s, pair, i, gerr) ==
    IF gerr # "" THEN [s EXCEPT !.err = gerr, !.at = "geometry"]
    ELSE FinishPair(s, pair, i)

\* lines 320-375, s being the instance after self.run returned
AfterRun(s, pair, i) ==
    IF s.err # "" THEN s
    ELSE AfterRunChecked(s, pair, i,
            GeometryErrorOf(net.faces[pair[1]], net.faces[pair[2]],
                            FindNeighborPores(net.faces[pair[1]]) \cap net.internal))

\* one pass of the loop of lines 300-375
EffIteration(s, pair, i, after) ==
    AfterRun(Run(AssignFaces(s, net.faces[pair[1]], net.faces[pair[2]]), after), pair, i)

RECURSIVE EffLoop(_, _, _, _)
EffLoop(s, pairs, i, after) ==
    IF i > Len(pairs) \/ s.err # "" THEN s
    ELSE EffLoop(EffIteration(s, pairs[i], i, after), pairs, i + 1, after)

\* lines 376-385: each step of the try block needs the attribute it reads;
\* the first missing one ends the block silently
RestoreValues(s) ==
    IF ~Has(s.BCvalues_temp) THEN s
    ELSE [s EXCEPT !.values = s.BCvalues_temp, !.BCvalues_temp = None]

RestoreTypes(s) ==
    IF ~Has(s.BCtypes_temp) THEN s
    ELSE RestoreValues([s EXCEPT !.types = s.BCtypes_temp, !.BCtypes_temp = None])

RestoreBCval(s) ==
    IF ~Has(s.BCval_temp) THEN s
    ELSE RestoreTypes([s EXCEPT !.BCval = s.BCval_temp, !.BCval_temp = None])

Restore(s) ==
    IF ~Has(s.dir) THEN s
    ELSE RestoreBCval([s EXCEPT !.info["Dirichlet"] = s.dir, !.dir = None])

\* an exception leaves the loop and the method at once
RestoreUnlessRaised(s) == IF s.err # "" THEN s ELSE Restore(s)

\* _calc_eff_prop_cubic for the face pairs `pairs` (lines 250-387)
CalcEffPropCubicOn(s, pairs, after) ==
    RestoreUnlessRaised(EffLoop(Snapshot(s), pairs, 1, after))

(* ------------------------------ networks -------------------------------- *)
FaceNames == {"front", "back", "left", "right", "top", "bottom", "inlet", "outlet"}
NoFaces == [f \in FaceNames |-> {}]

\* two pores joined by one throat
NetPair ==
    [Np |-> 2, conns |-> << <<0, 1>> >>, internal |-> {}, cross_section |-> <<1>>,
     g |-> <<2>>,
     coords |-> [p \in 0 .. 1 |-> <<p, 0, 0>>],
     faces |-> [NoFaces EXCEPT !["front"] = {0}, !["back"] = {1}]]

\* two pores joined by two parallel throats stored in opposite orders
NetParallel ==
    [Np |-> 2, conns |-> << <<0, 1>>, <<1, 0>> >>, internal |-> {1},
     cross_section |-> <<1, 2>>, g |-> <<1, 2>>,
     coords |-> [p \in 0 .. 1 |-> <<p, 0, 0>>],
     faces |-> [NoFaces EXCEPT !["front"] = {0}, !["back"] = {1}]]

\* a chain of three pores, the middle one internal
NetChain ==
    [Np |-> 3, conns |-> << <<0, 1>>, <<1, 2>> >>, internal |-> {1},
     cross_section |-> <<2, 1>>, g |-> <<1, 2>>,
     coords |-> [p \in 0 .. 2 |-> <<p, 0, 0>>],
     faces |-> [NoFaces EXCEPT !["front"] = {0}, !["back"] = {2}]]

Networks == {NetPair, NetParallel, NetChain}

\* a square of four pores, all internal, with two pairs of opposite faces
NetSquare ==
    [Np |-> 4, conns |-> << <<0, 1>>, <<2, 3>>, <<0, 2>>, <<1, 3>> >>,
     internal |-> {0, 1, 2, 3}, cross_section |-> <<1, 1, 1, 1>>,
     g |-> <<1, 2, 1, 2>>,
     coords |-> [p \in 0 .. 3 |-> <<p % 2, p \div 2, 0>>],
     faces |-> [NoFaces EXCEPT !["front"] = {0, 2}, !["back"] = {1, 3},
                               !["left"] = {0, 1}, !["right"] = {2, 3}]]

\* a cube of 2 x 2 x 2 pores, all internal, pore x + 2y + 4z at (x, y, z);
\* front/back are the faces of constant x, left/right of constant y,
\* bottom/top of constant z; inlet/outlet name the faces of constant x as well
NetCube ==
    [Np |-> 8,
     conns |-> << <<0, 1>>, <<2, 3>>, <<4, 5>>, <<6, 7>>,
                  <<0, 2>>, <<1, 3>>, <<4, 6>>, <<5, 7>>,
                  <<0, 4>>, <<1, 5>>, <<2, 6>>, <<3, 7>> >>,
     internal |-> 0 .. 7,
     cross_section |-> [t \in 1 .. 12 |-> 1],
     g |-> [t \in 1 .. 12 |-> 1 + (t % 2)],
     coords |-> [p \in 0 .. 7 |-> <<p % 2, (p \div 2) % 2, p \div 4>>],
     faces |-> [NoFaces EXCEPT !["front"] = {0, 2, 4, 6}, !["back"] = {1, 3, 5, 7},
                               !["left"] = {0, 1, 4, 5}, !["right"] = {2, 3, 6, 7},
                               !["bottom"] = {0, 1, 2, 3}, !["top"] = {4, 5, 6, 7},
                               !["inlet"] = {0, 2, 4, 6}, !["outlet"] = {1, 3, 5, 7}]]

\* the fluid's throat conductance: a scalar, or one value per throat
Conductances(n) == {<<g>> : g \in 1 .. MaxG} \cup {n.g}

\* what one pore carries: a label (or none) and its 'BCval' entry; an
\* insulated pore needs no value, a Neumann value of 0 is an insulated pore
Vals == 0 .. MaxVal
PoreBCs ==
    {<<"", NaN>>, <<"Neumann_insulated", NaN>>}
    \cup {<<"Dirichlet", v>> : v \in Vals}
    \cup {<<l, v>> : l \in {"Neumann_flux", "Neumann_rate_union", "Neumann_rate_individual"},
                     v \in 1 .. MaxVal}

\* the smaller family used where every set of pores is handed to rate
RatePoreBCs ==
    {<<"", NaN>>} \cup {<<"Dirichlet", v>> : v \in Vals}
    \cup {<<"Neumann_rate_union", 1>>, <<"Neumann_rate_individual", 1>>}

InfoOf(n, bc) ==
    [l \in BCLabels |->
        IF \E p \in 0 .. (n.Np - 1) : bc[p][1] = l
        THEN Some({p \in 0 .. (n.Np - 1) : bc[p][1] = l})
        ELSE None]

BCvalOf(n, bc) ==
    IF \A p \in 0 .. (n.Np - 1) : bc[p][1] = "" THEN None
    ELSE Some([p \in 0 .. (n.Np - 1) |-> bc[p][2]])

\* what _calc_eff_prop_cubic returns: the mapping's keys, or the positions of
\* the tensor that were assigned (the pair written at each), or nothing
NoOut == [kind |-> "", keys |-> {}, tensor |-> <<>>, pairs |-> <<>>]

NoRet == [op |-> "", status |-> "", at |-> "", value |-> XZero, arg |-> {}, out |-> NoOut]

\* the instance after construction, boundary labels and values in the store
InitOf(n, bc, g) ==
    /\ net = n
    /\ fluid_g = g
    /\ pore_info = InfoOf(n, bc)
    /\ BCval = BCvalOf(n, bc)
    /\ BCtypes = None
    /\ BCvalues = None
    /\ conductance = g
    /\ extera = <<>>
    /\ Coeff_dimension = None
    /\ A = None
    /\ B = None
    /\ result = None
    /\ Neumann_super_X = None
    /\ dir = None
    /\ BCval_temp = None
    /\ BCtypes_temp = None
    /\ BCvalues_temp = None
    /\ ret = NoRet

InitFrom(nets, options) ==
    \E n \in nets :
      \E bc \in [0 .. (n.Np - 1) -> options] :
        \E g \in Conductances(n) : InitOf(n, bc, g)

Init == InitFrom(Networks, PoreBCs)

InitRate == InitFrom(Networks, RatePoreBCs)

\* conductance arrays of every shape: the right ones, one entry too many, one
\* entry too few, and the empty array
ShapeConductances(n) ==
    Conductances(n) \cup {n.g \o <<1>>, SubSeq(n.g, 1, Len(n.g) - 1), <<>>}

ShapePoreBCs ==
    {<<"", NaN>>, <<"Neumann_insulated", NaN>>} \cup {<<"Dirichlet", v>> : v \in Vals}

InitShape ==
    \E n \in Networks :
      \E bc \in [0 .. (n.Np - 1) -> ShapePoreBCs] :
        \E g \in ShapeConductances(n) : InitOf(n, bc, g)

\* the prior boundary conditions the estimator is called on
EffPoreBCs ==
    {<<"", NaN>>, <<"Dirichlet", 1>>, <<"Neumann_insulated", NaN>>,
     <<"Neumann_rate_individual", 1>>}

\* the square starts unlabelled or with Dirichlet pores only, the cube
\* unlabelled or with Dirichlet 1 on its bottom face
InitEff ==
    \/ InitFrom({NetChain}, EffPoreBCs)
    \/ InitFrom({NetSquare}, {<<"", NaN>>, <<"Dirichlet", 1>>})
    \/ \E D \in {{}, NetCube.faces["bottom"]} :
         \E g \in Conductances(NetCube) :
           InitOf(NetCube, [p \in 0 .. 7 |-> IF p \in D THEN <<"Dirichlet", 1>> ELSE <<"", NaN>>], g)

(* ------------------------------- actions -------------------------------- *)
Store(s) ==
    /\ pore_info' = s.info
    /\ BCval' = s.BCval
    /\ BCtypes' = s.types
    /\ BCvalues' = s.values
    /\ conductance' = s.cond
    /\ extera' = s.extera
    /\ Coeff_dimension' = s.dim
    /\ A' = s.A
    /\ B' = s.B
    /\ result' = s.result
    /\ Neumann_super_X' = s.superX
    /\ dir' = s.dir
    /\ BCval_temp' = s.BCval_temp
    /\ BCtypes_temp' = s.BCtypes_temp
    /\ BCvalues_temp' = s.BCvalues_temp

Outcome(name, s) ==
    [op |-> name, status |-> IF s.err = "" THEN "ok" ELSE s.err, at |-> s.at,
     value |-> XZero, arg |-> {}, out |-> NoOut]

BoundaryConditionsSetup ==
    \E after \in SUBSET Conflicting(pore_info) :
      \E s \in {BoundaryConditionsSetupOn(Self, after)} :
        /\ Store(s)
        /\ ret' = Outcome("_boundary_conditions_setup", s)
        /\ UNCHANGED <<net, fluid_g>>

DoOneInnerIteration ==
    /\ Has(BCtypes)
    /\ \E s \in {DoOneInnerIterationOn(Self)} :
        /\ Store(s)
        /\ ret' = Outcome("_do_one_inner_iteration", s)
        /\ UNCHANGED <<net, fluid_g>>

Rate ==
    \E S \in SUBSET Pores :
        /\ RateDefined(S)
        /\ ret' = [op |-> "rate", status |-> "ok", at |-> "",
                   value |-> RateOf(Get(result), conductance, S), arg |-> S,
                   out |-> NoOut]
        /\ UNCHANGED <<net, fluid_g, pore_info, BCval, BCtypes, BCvalues, conductance,
                       extera, Coeff_dimension, A, B, result, Neumann_super_X,
                       dir, BCval_temp, BCtypes_temp, BCvalues_temp>>

\* lines 386-387: what is returned
EffOut(s, pairs) ==
    IF s.err # "" THEN NoOut
    ELSE IF Len(pairs) < 3
         THEN [kind |-> "mapping", keys |-> s.keys, tensor |-> <<>>, pairs |-> pairs]
    ELSE IF Len(pairs) = 3
         THEN [kind |-> "tensor", keys |-> {}, tensor |-> s.tensor, pairs |-> pairs]
    ELSE [kind |-> "none", keys |-> {}, tensor |-> <<>>, pairs |-> pairs]

\* face1/face2 as given: no usable pair, one pair, two pairs, the default
\* three, and three pairs the first of which goes by other names
EffArgs ==
    {<<>>,
     << <<"front", "back">> >>,
     << <<"front", "back">>, <<"right", "left">> >>,
     << <<"front", "back">>, <<"right", "left">>, <<"top", "bottom">> >>,
     << <<"inlet", "outlet">>, <<"right", "left">>, <<"top", "bottom">> >>}

CalcEffPropCubic ==
    \E pairs \in EffArgs :
      \E after \in SUBSET {l \in OtherLabels : Has(pore_info[l])} :
        \E s \in {CalcEffPropCubicOn(Self, pairs, after)} :
          /\ Store(s)
          /\ ret' = [op |-> "_calc_eff_prop_cubic",
                     status |-> IF s.err = "" THEN "ok" ELSE s.err, at |-> s.at,
                     value |-> XZero, arg |-> {}, out |-> EffOut(s, pairs)]
          /\ UNCHANGED <<net, fluid_g>>

\* assembly and solve
Next ==
    \/ BoundaryConditionsSetup
    \/ DoOneInnerIteration

Spec == Init /\ [][Next]_vars

\* assembly and solve on conductance arrays of every shape
SpecShape == InitShape /\ [][Next]_vars

\* assembly, solve and rate evaluation
NextRate ==
    \/ BoundaryConditionsSetup
    \/ DoOneInnerIteration
    \/ Rate

SpecRate == InitRate /\ [][NextRate]_vars

\* the estimator on top of assembly and solve
NextEff ==
    \/ BoundaryConditionsSetup
    \/ DoOneInnerIteration
    \/ CalcEffPropCubic

SpecEff == InitEff /\ [][NextEff]_vars

(* ------------------------------ properties ------------------------------ *)
\* the last call was _do_one_inner_iteration and it returned: A, B and the
\* arrays are the ones it assembled
Built == ret.op = "_do_one_inner_iteration" /\ ret.status = "ok"

Dim == Get(Coeff_dimension)
Kind(p) == Get(BCtypes)[p]
Value(p) == Get(BCvalues)[p]
Entry(r, c) == Get(A)[r][c]

\* C1: a call of _do_one_inner_iteration on a kind array that is 0 everywhere
\* raises the 'No boundary condition' exception and changes nothing: no matrix
\* or load vector is built, the kind and value arrays keep their entries (no
\* boundary pore becomes insulated) and no result is stored.
C1_NoBCFailsBeforeAssembly ==
    [][(Has(BCtypes) /\ NoBoundaryCondition(Get(BCtypes))
        /\ ret'.op = "_do_one_inner_iteration")
       => (/\ ret'.status = "Exception"
           /\ UNCHANGED <<A, B, BCtypes, BCvalues, conductance, extera,
                          Coeff_dimension, result, Neumann_super_X>>)]_vars

\* C1 witness: the call failed on an all-zero kind array that holds a pore
\* which is not internal, and no matrix exists
C1_Witness ==
    /\ ret.op = "_do_one_inner_iteration" /\ ret.status = "Exception"
    /\ \E p \in Pores : p \notin net.internal /\ Kind(p) = 0
    /\ A = None /\ result = None

\* C4: after assembly the row of every Dirichlet pore d is an identity row
\* (diagonal 1, every other entry 0) and the load vector holds d's value.
C4_DirichletRowsIdentity ==
    Built => \A d \in Pores : Kind(d) = 1 =>
        /\ Entry(d, d) = <<1, 0>>
        /\ \A c \in 0 .. (Dim - 1) : c # d => Entry(d, c) = Zero2
        /\ Get(B)[d] = Value(d)

\* C4 witness: a Dirichlet pore joined to a pore that is not Dirichlet, in a
\* system that has a superpore
C4_Witness ==
    /\ Built /\ Dim > net.Np
    /\ \E t \in Throats : Kind(tpore1(t)) = 1 /\ Kind(tpore2(t)) = 4
    /\ \E t \in Throats : Kind(tpore2(t)) = 1 /\ Kind(tpore1(t)) # 1

RowSum(r) == SumData([c \in 1 .. Dim |-> <<r, c - 1, Entry(r, c - 1)>>], 1 .. Dim)

\* C5: after assembly every row of a pore that is not Dirichlet sums to zero,
\* the superpore coupling and the columns of Dirichlet neighbours included.
C5_RowSumsZero ==
    Built => \A r \in Pores : Kind(r) # 1 => RowSum(r) = Zero2

\* C5 witness: a grouped-rate pore coupled to a superpore and joined to a
\* Dirichlet pore
C5_Witness ==
    /\ Built
    /\ \E r \in Pores : /\ Kind(r) = 4
                        /\ \E c \in net.Np .. (Dim - 1) : Entry(r, c) = g_super
                        /\ \E c \in Pores : Kind(c) = 1 /\ Entry(r, c)[1] > 0

GroupedValues == {Value(p) : p \in {q \in Pores : Kind(q) = 4}}

\* C6: the matrix is square of dimension N + k, k the number of distinct
\* values of the kind-4 pores after the flux conversion (N when there is no
\* such pore), and the load vector has the same length.
C6_Dimension ==
    Built =>
        /\ Dim = net.Np + Cardinality(GroupedValues)
        /\ DOMAIN Get(A) = 0 .. (Dim - 1)
        /\ \A r \in 0 .. (Dim - 1) : DOMAIN Get(A)[r] = 0 .. (Dim - 1)
        /\ DOMAIN Get(B) = 0 .. (Dim - 1)

\* C6 witness: three grouped-rate pores holding two distinct values
C6_Witness ==
    /\ Built
    /\ Cardinality({q \in Pores : Kind(q) = 4}) = 3
    /\ Cardinality(GroupedValues) = 2

\* C7: in the load vector a kind-5 pore holds its own rate, the row of the
\* superpore coupled to a grouped-rate class holds the class's rate, and every
\* pore row that is neither Dirichlet nor kind 5 holds 0.
C7_LoadVector ==
    Built =>
        /\ \A p \in Pores : Kind(p) = 5 => Get(B)[p] = Value(p)
        /\ \A p \in Pores : Kind(p) = 4 =>
              /\ \E r \in net.Np .. (Dim - 1) : Entry(p, r) # Zero2
              /\ \A r \in net.Np .. (Dim - 1) : Entry(p, r) # Zero2 => Get(B)[r] = Value(p)
        /\ \A p \in Pores : Kind(p) \notin {1, 5} => Get(B)[p] = 0

\* C7 witness: two grouped-rate classes and a kind-5 pore
C7_Witness ==
    /\ Built
    /\ Cardinality(GroupedValues) = 2
    /\ \E p \in Pores : Kind(p) = 5 /\ Value(p) > 0

\* the flux pores as the store holds them, and the group of p
FluxLabelled == IF Has(pore_info["Neumann_flux"]) THEN Get(pore_info["Neumann_flux"]) ELSE {}
FluxGroupOf(p) == {q \in FluxLabelled : Get(BCval)[q] = Get(BCval)[p]}

\* C8: after assembly no pore has kind 2; every flux pore is of kind 4 with
\* the value flux * (sum of the cross-sections of the throats joining its own
\* group to the group's internal neighbours), whatever the other groups are.
C8_FluxGroupsIndependent ==
    Built =>
        /\ \A p \in Pores : Kind(p) # 2
        /\ \A p \in FluxLabelled :
              /\ Kind(p) = 4
              /\ Value(p) = Get(BCval)[p] * SumOver(FluxThroats(FluxGroupOf(p)), net.cross_section)

\* the potentials hold numbers (no nan)
ResultIsNumbers == Has(result) /\ \A p \in Pores : ~XIsNaN(Get(result)[p])

\* C9: rate(pores=S) = -rate(pores=complement of S) for every solved field
\* and every set S of pores, and a call of rate changes neither the result,
\* the conductances nor the boundary-condition arrays.
C9_RateAntisymmetric ==
    [][(ret'.op = "rate" /\ ResultIsNumbers)
       => (/\ ret'.value = XNeg(RateOf(Get(result), conductance, Pores \ ret'.arg))
           /\ \A S \in SUBSET Pores :
                 RateOf(Get(result'), conductance', S)
                     = XNeg(RateOf(Get(result'), conductance', Pores \ S))
           /\ UNCHANGED <<result, conductance, BCtypes, BCvalues, BCval, pore_info>>)]_vars

\* C9 witness: rate returned a non-zero value over a throat whose second
\* stored endpoint is the one inside the set
C9_Witness ==
    /\ ret.op = "rate" /\ ret.status = "ok" /\ ResultIsNumbers
    /\ ret.value[1] # 0
    /\ \E t \in FindNeighborThroats(ret.arg) : tpore2(t) \in ret.arg

\* the network and boundary conditions of the round trip: two pores, one
\* throat of conductance 2, Dirichlet 1 at pore 0 and 0 at pore 1
RoundTripCase ==
    /\ net = NetPair
    /\ fluid_g = <<2>>
    /\ pore_info["Dirichlet"] = Some({0, 1})
    /\ BCval = Some([p \in 0 .. 1 |-> IF p = 0 THEN 1 ELSE 0])

\* C10: on the round-trip case, setup, assembly and solve give the
\* potentials [1, 0], and rate(pores=[0]) is 2.
C10_RoundTrip ==
    RoundTripCase =>
        /\ Has(result) => Get(result) = [p \in 0 .. 1 |-> IF p = 0 THEN XInt(1) ELSE XInt(0)]
        /\ (ret.op = "rate" /\ ret.arg = {0}) => ret.value = XInt(2)

\* C10 witness: the round-trip case solved and rate(pores=[0]) returned
C10_Witness ==
    /\ RoundTripCase
    /\ Has(result)
    /\ ret.op = "rate" /\ ret.arg = {0} /\ ret.status = "ok"

\* the boundary-condition state a caller of the estimator can observe
BCStateKept ==
    /\ pore_info'["Dirichlet"] = pore_info["Dirichlet"]
    /\ BCval' = BCval
    /\ BCtypes' = BCtypes
    /\ BCvalues' = BCvalues

\* C2: whenever _calc_eff_prop_cubic returns normally, the Dirichlet label
\* set, the BCval data and the kind/value arrays are what they were
\* immediately before the call
C2_RestoredOnReturn ==
    [][(ret'.op = "_calc_eff_prop_cubic" /\ ret'.status = "ok") => BCStateKept]_vars

\* C3: whenever the inner self.run of _calc_eff_prop_cubic fails, the Dirichlet
\* label set, the BCval data and the kind/value arrays are what they were
\* immediately before the call
C3_RestoredOnRunFailure ==
    [][(ret'.op = "_calc_eff_prop_cubic" /\ ret'.at = "run") => BCStateKept]_vars

\* the conductance is an array whose length is not the number of throats
\* (an array of size 1 counts as a scalar)
ShapeMismatch == Len(conductance) # 1 /\ Len(conductance) # Nt

\* C11: a call of _do_one_inner_iteration that passes the guard of line 38
\* with a conductance array of the wrong length fails and assembles no
\* matrix; with a scalar conductance it leaves one value per throat.
C11_ShapeErrorBeforeAssembly ==
    [][(/\ ret'.op = "_do_one_inner_iteration"
        /\ Has(BCtypes) /\ ~NoBoundaryCondition(Get(BCtypes)))
       => (/\ ShapeMismatch => (ret'.status # "ok" /\ A' = A)
           /\ (Len(conductance) = 1 /\ ret'.status = "ok")
                => conductance' = [t \in Throats |-> conductance[1]])]_vars

\* the axis (1 = x, 2 = y, 3 = z) whose coordinate is constant over the
\* pores of the face: the first one, as lines 334-350 test them
ConstantAxis(name) ==
    Min({k \in 1 .. 3 : Cardinality({net.coords[p][k] : p \in net.faces[name]}) = 1})

OrthogonalPairs(pairs) ==
    \A i, j \in 1 .. Len(pairs) :
        i # j => ConstantAxis(pairs[i][1]) # ConstantAxis(pairs[j][1])

\* C12: _calc_eff_prop_cubic returns a mapping with one key per pair when it
\* is given fewer than 3 pairs, and a tensor when it is given 3 pairs; in the
\* tensor the coefficient of each of 3 orthogonal pairs sits on the diagonal
\* position of the axis whose coordinate is constant over the pair's face1,
\* whatever the faces are called.
C12_ReturnShape ==
    (ret.op = "_calc_eff_prop_cubic" /\ ret.status = "ok") =>
        /\ Len(ret.out.pairs) < 3 =>
              /\ ret.out.kind = "mapping"
              /\ ret.out.keys = {ret.out.pairs[i] : i \in 1 .. Len(ret.out.pairs)}
        /\ Len(ret.out.pairs) = 3 =>
              /\ ret.out.kind = "tensor"
              /\ OrthogonalPairs(ret.out.pairs) =>
                    \A i \in 1 .. 3 :
                        ret.out.tensor[ConstantAxis(ret.out.pairs[i][1])] = i

\* the grouped-rate class of value v, and the (pore, throat) incidences of a
\* set of pores
ClassOf(v) == {p \in Pores : Kind(p) = 4 /\ Value(p) = v}
Incidences(C) == {<<p, t>> \in C \X Throats : p \in {tpore1(t), tpore2(t)}}
OtherEnd(p, t) == IF tpore1(t) = p THEN tpore2(t) ELSE tpore1(t)

\* what pore p receives through throat t: g * (X[neighbour] - X[p])
Inflow(p, t) ==
    XScale(conductance[t], XSub(Get(result)[OtherEnd(p, t)], Get(result)[p]))

RECURSIVE InflowSum(_)
InflowSum(PT) ==
    IF PT = {} THEN XZero
    ELSE LET pt == CHOOSE x \in PT : TRUE
         IN XAdd(Inflow(pt[1], pt[2]), InflowSum(PT \ {pt}))

\* C13: in a solved system (potentials without nan) the pores of every
\* grouped-rate class together receive from their network neighbours exactly
\* the class's rate: the sum over the class of g * (X[neighbour] - X[pore])
\* over the throats of each pore equals the shared value.
C13_ClassRate ==
    (Built /\ ResultIsNumbers) =>
        \A v \in GroupedValues : InflowSum(Incidences(ClassOf(v))) = XInt(v)

\* C13 witness: a solved system with a class of two pores of non-zero rate
\* whose potentials differ
C13_Witness ==
    /\ Built /\ ResultIsNumbers
    /\ \E v \in GroupedValues :
          /\ v > 0
          /\ \E p, q \in ClassOf(v) : Get(result)[p] # Get(result)[q]

\* C14: a call of _do_one_inner_iteration on a kind array that holds some
\* boundary condition but no Dirichlet pore fails, and stores no potential
\* array in self._result.
C14_SingularFails ==
    [][(/\ ret'.op = "_do_one_inner_iteration"
        /\ Has(BCtypes) /\ ~NoBoundaryCondition(Get(BCtypes))
        /\ \A p \in Pores : Get(BCtypes)[p] # 1)
       => (ret'.status # "ok" /\ result' = result)]_vars

\* the throats joining pores a and b, in either orientation
Joining(a, b) == {t \in Throats : {tpore1(t), tpore2(t)} = {a, b}}

\* C15: after assembly, for a pore a that is not Dirichlet and any other pore
\* b, A[a,b] is the sum of the conductances of the throats joining a and b
\* (0 when there is none), whatever b's kind and the orientation of the
\* throats; between two Dirichlet pores both entries are 0.
C15_EntriesSumConductances ==
    Built => \A a, b \in Pores : a # b =>
        /\ Kind(a) # 1 => Entry(a, b) = <<SumOver(Joining(a, b), conductance), 0>>
        /\ (Kind(a) = 1 /\ Kind(b) = 1) => Entry(a, b) = Zero2

\* C15 witness: a pore that is not Dirichlet joined to a Dirichlet pore by two
\* parallel throats of different conductance stored in opposite orientations
C15_Witness ==
    /\ Built
    /\ \E a, b \in Pores :
          /\ Kind(a) # 1 /\ Kind(b) = 1
          /\ \E t, u \in Joining(a, b) :
                /\ tpore1(t) = a /\ tpore2(u) = a
                /\ conductance[t] # conductance[u]

\* the kind code of the label of p in the store, 0 for an unlabelled pore
LabelKind(p) ==
    IF LabelsOf(pore_info, p) = {} THEN 0
    ELSE KindOf(CHOOSE l \in LabelsOf(pore_info, p) : TRUE)

\* C16: every call of _boundary_conditions_setup leaves arrays that depend on
\* the labels and values of the store only: a pore with one label has the
\* kind code of that label and its BCval entry, an unlabelled pore has kind 0
\* and value 0, boundary pore or not.  An assembly changes kind 0 to 3 exactly
\* for the pores that are not internal; unlabelled internal pores stay 0.
C16_SetupRebuilds ==
    [][/\ ret'.op = "_boundary_conditions_setup" =>
            \A p \in Pores : Cardinality(LabelsOf(pore_info, p)) <= 1 =>
                /\ Get(BCtypes')[p] = LabelKind(p)
                /\ Get(BCvalues')[p] = IF LabelsOf(pore_info, p) = {} THEN 0
                                        ELSE BCvalAt(BCval, p)
       /\ (ret'.op = "_do_one_inner_iteration" /\ ret'.status # "Exception") =>
            \A p \in Pores : Get(BCtypes)[p] = 0 =>
                Get(BCtypes')[p] = IF p \in net.internal THEN 0 ELSE 3]_vars

\* C16 witness: _boundary_conditions_setup was called after an assembly that
\* had made a boundary pore insulated and converted a flux pore, and
\* both are back to kind 0 and kind 2
C16_Witness ==
    /\ ret.op = "_boundary_conditions_setup" /\ Has(A)
    /\ \E p \in Pores : p \notin net.internal /\ Kind(p) = 0
    /\ \E p \in Pores : Kind(p) = 2
    /\ \E p \in Pores : p \in net.internal /\ Kind(p) = 0

\* C17: once a call of _calc_eff_prop_cubic has returned normally, none of
\* the snapshot attributes _dir, _BCval_temp, _BCtypes_temp, _BCvalues_temp
\* is left on the instance.
C17_NoSnapshotLeft ==
    (ret.op = "_calc_eff_prop_cubic" /\ ret.status = "ok") =>
        /\ dir = None
        /\ BCval_temp = None
        /\ BCtypes_temp = None
        /\ BCvalues_temp = None

====
